---- MODULE Spec2Model ----
(***************************************************************************)
(* The capture writer of crates/lib/src/capture.rs: PcapWriter, which      *)
(* turns socket events (PacketInfo, payload) into synthesized              *)
(* Ethernet/IP/TCP-or-UDP records appended to a pcapng stream.             *)
(*                                                                         *)
(* A u32 of the program is modelled as a pair <<hi, lo>> of 16-bit halves  *)
(* (value hi * 2^16 + lo), so that wrapping arithmetic modulo 2^32 is      *)
(* exact although TLC's integers are 32-bit signed.                        *)
(*                                                                         *)
(* An emitted frame is kept structured (header fields, payload bytes and   *)
(* byte counts) instead of as a flat byte string.  Timestamps              *)
(* (start_time.elapsed()) are not modelled.                                *)
(*                                                                         *)
(* Library behaviour the code relies on (pnet_packet, pcap_file):          *)
(*  - PacketSize::packet_size() is the size computed from the packet's     *)
(*    fixed fields plus every field that declares a length: for TCP        *)
(*    20 + options (data_offset), for UDP 8, for Ethernet 14 (their        *)
(*    payloads declare no length), but for IPv4                            *)
(*    20 + options + (total_length - header_length * 4) and for IPv6       *)
(*    40 + payload_length, since those payloads declare their length.      *)
(*  - Vec::truncate(n) with n > len leaves the vector unchanged.           *)
(*  - write_block returns Err when the underlying stream fails; unwrap()   *)
(*    on Err panics.                                                        *)
(***************************************************************************)
EXTENDS Integers, Sequences, FiniteSets, TLC

VARIABLES
    send_seq,            \* PcapWriter.send_seq: u32 as <<hi, lo>>
    rec_seq,             \* PcapWriter.rec_seq: u32 as <<hi, lo>>
    has_sent_handshake,  \* PcapWriter.has_sent_handshake
    stream_count,        \* PcapWriter.stream_count: u32 as <<hi, lo>>
    log,                 \* the blocks appended through PcapWriter.writer, in order
    status,              \* "running", or "panicked" once an unwrap() failed
    family,              \* the IP family (4 or 6) of the session's addresses
    ops,                 \* number of calls made (bounds the exploration)
    calls,               \* history: the calls that returned, in order
    last,                \* history: the latest call, with the state it started from
    sendSum,             \* history: Send payload bytes written since the latest handshake
    recvSum,             \* history: Receive payload bytes written since the latest handshake
    connects,            \* history: number of PcapWriter new_connect calls that returned
    registry,            \* the writer registry: which writer is installed, if any
    files,               \* the capture files: whether each exists, and its leading blocks
    sizes                \* the payload sizes the caller uses: "small" or "boundary"

vars == <<send_seq, rec_seq, has_sent_handshake, stream_count, log, status,
          family, ops, calls, last, sendSum, recvSum, connects,
          registry, files, sizes>>

-----------------------------------------------------------------------------
(* Bounds of the exploration *)

MaxOps == 3

MaxPayloadLen == 2

\* Calls explored in a run whose payloads are at the buffer boundary.
MaxBoundaryOps == 1

-----------------------------------------------------------------------------
(* Program constants *)

PACKET_SIZE == 5012

HEADER_SIZE_ETHERNET == 14

HEADER_SIZE_IP4 == 20

HEADER_SIZE_IP6 == 40

HEADER_SIZE_UDP == 4

-----------------------------------------------------------------------------
(* u32 arithmetic on <<hi, lo>> pairs *)

Half == 2^16

Min(a, b) == IF a <= b THEN a ELSE b

\* The u32 with value n, for 0 <= n < 2^31.
U32(n) == <<n \div Half, n % Half>>

\* A u32 that saturates at 2^32 - 1 instead of wrapping.
SaturatingAdd(a, n) ==
    LET lo == a[2] + n
        hi == a[1] + (lo \div Half)
    IN  IF hi >= Half THEN <<Half - 1, Half - 1>> ELSE <<hi, lo % Half>>

\* u32::wrapping_add(a, n as u32)
WrappingAdd(a, n) ==
    LET lo == a[2] + n
    IN  <<(a[1] + (lo \div Half)) % Half, lo % Half>>

\* `x as u16` for a u32 x
AsU16(a) == a[2]

\* the low 20 bits of a u32 (Ipv6 flow label, u20)
AsU20(a) == (a[1] % 16) * Half + a[2]

\* History counters are unbounded naturals <<hi, lo>> in base 2^16 (hi unbounded).
BigAdd(b, n) ==
    LET lo == b[2] + n
    IN  <<b[1] + (lo \div Half), lo % Half>>

Mod32(b) == <<b[1] % Half, b[2]>>

-----------------------------------------------------------------------------
(* Inputs.  Both addresses of an event are of one IP family (the mixed     *)
(* case is unreachable!() in encode_ip_packet), the same for a whole run.  *)

Directions == {"Send", "Receive"}

Protocols == {"TCP", "UDP"}

\* A payload of n bytes; the bytes differ by position.
PayloadOf(n) == [i \in 1..n |-> (i * 37 + 11) % 256]

\* The empty payload, a one-byte payload and the longest one explored.
Payloads == {PayloadOf(n) : n \in {0, 1, MaxPayloadLen}}

\* The transport buffer of write_transport_packet (capture.rs 109).
TransportBufferIp4Only == PACKET_SIZE - HEADER_SIZE_IP4 - HEADER_SIZE_ETHERNET

TransportBufferSize ==
    PACKET_SIZE
      - (IF HEADER_SIZE_IP4 >= HEADER_SIZE_IP6 THEN HEADER_SIZE_IP4 ELSE HEADER_SIZE_IP6)
      - HEADER_SIZE_ETHERNET

\* Payloads around the largest TCP payload (buffer - 20) and the largest UDP
\* payload (buffer - 8) the transport buffer holds.
BoundaryPayloads ==
    {PayloadOf(n) : n \in {4937, 4938, 4939, 4949, 4950, 4951}}

SocketAddr(f, host, port) == [ip |-> [family |-> f, host |-> host], port |-> port]

LocalAddress(f) == SocketAddr(f, "local", 51000)

RemoteAddress(f) == SocketAddr(f, "remote", 27015)

PacketInfo(d, p, f) ==
    [direction |-> d, protocol |-> p,
     remote_address |-> RemoteAddress(f), local_address |-> LocalAddress(f)]

Opposite(d) == IF d = "Send" THEN "Receive" ELSE "Send"

-----------------------------------------------------------------------------
(* Header encoders *)

\* tcp.packet_size(): 20 bytes plus the options the data offset declares.
TcpPacketSize(data_offset) == 20 + (data_offset - 5) * 4

\* udp.packet_size(): four 16-bit fields.
UdpPacketSize == 4 * 2

\* A TCP segment as the slice &buf[.. bytes] handed to write_transport_payload.
TcpSegment(src, dst, seq, ack, flags, payload, bytes) ==
    [proto |-> "TCP", source |-> src, destination |-> dst,
     sequence |-> seq, acknowledgement |-> ack,
     data_offset |-> 5, window |-> 43440, flags |-> flags,
     payload |-> payload, bytes |-> bytes]

\* A UDP datagram as the slice &buf[.. bytes] handed to write_transport_payload.
UdpDatagram(src, dst, payload) ==
    [proto |-> "UDP", source |-> src, destination |-> dst,
     length |-> (Len(payload) + HEADER_SIZE_UDP) % Half,
     payload |-> payload, bytes |-> UdpPacketSize + Len(payload)]

\* ip.packet_size() of the IPv4 packet: fixed fields, options, declared payload.
Ipv4PacketSize(hdr) ==
    LET options_length == IF hdr.header_length * 4 >= 20
                          THEN hdr.header_length * 4 - 20 ELSE 0
        payload_length == IF hdr.total_length >= hdr.header_length * 4
                          THEN hdr.total_length - hdr.header_length * 4 ELSE 0
    IN  20 + options_length + payload_length

\* ip.packet_size() of the IPv6 packet: fixed fields, declared payload.
Ipv6PacketSize(hdr) == 40 + hdr.payload_length

\* encode_ip_packet: the header written and the size returned.
encode_ip_packet(w, info, protocol, payload) ==
    LET source == IF info.direction = "Send"
                  THEN info.local_address.ip ELSE info.remote_address.ip
        destination == IF info.direction = "Send"
                       THEN info.remote_address.ip ELSE info.local_address.ip
    IN  IF info.local_address.ip.family = 4
        THEN LET header_size == HEADER_SIZE_IP4 + (32 \div 8)
                 hdr == [version |-> 4,
                         total_length |-> (payload.bytes + header_size) % Half,
                         next_level_protocol |-> protocol,
                         header_length |-> (header_size \div 4) % 16,
                         source |-> source, destination |-> destination,
                         ttl |-> 64, flags |-> "DontFragment",
                         option |-> [copied |-> 1, class |-> 0, number |-> "SID",
                                     length |-> 4,
                                     data |-> AsU16(w.stream_count)]]
             IN  [size |-> Ipv4PacketSize(hdr), ethertype |-> "Ipv4",
                  header |-> hdr, header_bytes |-> header_size]
        ELSE LET hdr == [version |-> 6,
                         payload_length |-> payload.bytes % Half,
                         next_header |-> protocol,
                         source |-> source, destination |-> destination,
                         hop_limit |-> 64,
                         flow_label |-> AsU20(w.stream_count)]
             IN  [size |-> Ipv6PacketSize(hdr), ethertype |-> "Ipv6",
                  header |-> hdr, header_bytes |-> HEADER_SIZE_IP6]

\* encode_ethernet_packet: ethernet.packet_size(), the 14-byte header.
encode_ethernet_packet == HEADER_SIZE_ETHERNET

\* write_transport_payload: the EnhancedPacketBlock handed to write_block.
write_transport_payload(w, info, protocol, payload, options) ==
    LET ip == encode_ip_packet(w, info, protocol, payload)
        network_size == ip.size + payload.bytes
        network_len == Min(PACKET_SIZE - HEADER_SIZE_ETHERNET, network_size)
        physical_size == encode_ethernet_packet + network_size
        physical_len == Min(PACKET_SIZE, physical_size)
    IN  [original_len |-> physical_size,
         interface_id |-> 0,
         options |-> options,
         data |-> [bytes |-> physical_len,
                   ethertype |-> ip.ethertype,
                   ip |-> ip.header,
                   transport |-> payload,
                   trailer |-> network_len - ip.header_bytes - payload.bytes]]

-----------------------------------------------------------------------------
(* Transport synthesizer.  An operation yields the blocks it hands to      *)
(* write_block, each with the writer fields as they are at that moment,    *)
(* and the writer fields when it returns.                                  *)

\* A step whose block is written without its options.
StepWithoutOptions(w, block) == [w |-> w, block |-> [block EXCEPT !.options = <<>>]]

Step(w, block) == [w |-> w, block |-> block]

\* The sender's counter advanced by the payload length (capture.rs 125-138).
AdvanceSeq(w, direction, n) ==
    IF direction = "Send"
    THEN [w EXCEPT !.send_seq = WrappingAdd(@, n)]
    ELSE [w EXCEPT !.rec_seq = WrappingAdd(@, n)]

\* The TCP data segment of a write (capture.rs 118-142).
TcpData(w, info, source_port, dest_port, payload) ==
    TcpSegment(source_port, dest_port,
               IF info.direction = "Send" THEN w.send_seq ELSE w.rec_seq,
               IF info.direction = "Send" THEN w.rec_seq ELSE w.send_seq,
               {"PSH", "ACK"}, payload, TcpPacketSize(5) + Len(payload))

\* An acknowledgement that keeps the ports of the data segment.
TcpAckSamePorts(w, info, source_port, dest_port) ==
    TcpSegment(source_port, dest_port,
               IF info.direction = "Send" THEN w.rec_seq ELSE w.send_seq,
               IF info.direction = "Send" THEN w.send_seq ELSE w.rec_seq,
               {"ACK"}, <<>>, TcpPacketSize(5))

\* An acknowledgement that numbers every ack as if the data had been sent by us.
TcpAckAsSend(w, info, source_port, dest_port) ==
    TcpSegment(dest_port, source_port, w.rec_seq, w.send_seq,
               {"ACK"}, <<>>, TcpPacketSize(5))

\* The synthesized acknowledgement of a write (capture.rs 151-175); w is the
\* writer after the counter was advanced, info the event of the data segment.
TcpAck(w, info, source_port, dest_port) ==
    TcpSegment(dest_port, source_port,
               IF info.direction = "Send" THEN w.rec_seq ELSE w.send_seq,
               IF info.direction = "Send" THEN w.send_seq ELSE w.rec_seq,
               {"ACK"}, <<>>, TcpPacketSize(5))

write_transport_packet(w, info, payload) ==
    LET source_port == IF info.direction = "Send"
                       THEN info.local_address.port ELSE info.remote_address.port
        dest_port == IF info.direction = "Send"
                     THEN info.remote_address.port ELSE info.local_address.port
        header == IF info.protocol = "TCP" THEN TcpPacketSize(5) ELSE UdpPacketSize
    IN  IF header + Len(payload) > TransportBufferSize
        THEN \* set_payload panics: the payload does not fit buf
             [steps |-> <<>>, final |-> w, overflow |-> TRUE]
        ELSE
        IF info.protocol = "TCP"
        THEN LET w1 == AdvanceSeq(w, info.direction, Len(payload))
                 ackInfo == [info EXCEPT !.direction = Opposite(info.direction)]
             IN  [steps |->
                    <<Step(w1, write_transport_payload(w1, info, "Tcp",
                             TcpData(w, info, source_port, dest_port, payload),
                             <<>>)),
                      Step(w1, write_transport_payload(w1, ackInfo, "Tcp",
                             TcpAck(w1, info, source_port, dest_port),
                             <<"Generated TCP ack">>))>>,
                  final |-> w1]
        ELSE [steps |->
                <<Step(w, write_transport_payload(w, info, "Udp",
                         UdpDatagram(source_port, dest_port, payload), <<>>))>>,
              final |-> w]

\* The event as the handshake received it: its direction is left as the caller set it.
HandshakeInfoKeepsDirection(info) == info

\* The event the handshake starts from: a clone with direction Send (capture.rs 288-289).
HandshakeInfo(info) == [info EXCEPT !.direction = "Send"]

write_tcp_handshake(w, info) ==
    LET source_port == info.local_address.port
        dest_port == info.remote_address.port
        sendInfo == HandshakeInfo(info)
        recvInfo == [sendInfo EXCEPT !.direction = "Receive"]
        ackInfo == [recvInfo EXCEPT !.direction = "Send"]
        options == <<"Generated TCP handshake">>
        \* SYN
        w1 == [w EXCEPT !.send_seq = U32(500)]
        syn == TcpSegment(source_port, dest_port, w1.send_seq, U32(0),
                          {"SYN"}, <<>>, TcpPacketSize(5))
        \* SYN + ACK
        w2 == [w1 EXCEPT !.send_seq = WrappingAdd(@, 1), !.rec_seq = U32(1000)]
        synack == TcpSegment(dest_port, source_port, w2.rec_seq, w2.send_seq,
                             {"SYN", "ACK"}, <<>>, TcpPacketSize(5))
        \* ACK
        w3 == [w2 EXCEPT !.rec_seq = WrappingAdd(@, 1)]
        ack == TcpSegment(source_port, dest_port, w3.send_seq, w3.rec_seq,
                          {"ACK"}, <<>>, TcpPacketSize(5))
    IN  [steps |->
           <<Step(w1, write_transport_payload(w1, sendInfo, "Tcp", syn, options)),
             Step(w2, write_transport_payload(w2, recvInfo, "Tcp", synack, options)),
             Step(w3, write_transport_payload(w3, ackInfo, "Tcp", ack, options))>>,
         final |-> [w3 EXCEPT !.has_sent_handshake = TRUE]]

\* A write that advances the sender's counter for UDP events too.
writeAdvancingUdp(w, info, data) ==
    LET r == write_transport_packet(w, info, data)
    IN  IF info.protocol = "UDP"
        THEN [steps |-> r.steps,
              final |-> AdvanceSeq(r.final, info.direction, Len(data))]
        ELSE r

\* PcapWriter::write (capture.rs 86-90)
write(w, info, data) == write_transport_packet(w, info, data)

\* A new_connect that synthesizes the handshake whatever the protocol.
new_connectAlwaysHandshake(w, packet) ==
    LET hs == write_tcp_handshake(w, packet)
    IN  [steps |-> hs.steps,
         final |-> [hs.final EXCEPT !.stream_count = WrappingAdd(@, 1)]]

\* A new_connect that counts only TCP connections.
new_connectCountsTcpOnly(w, packet) ==
    IF packet.protocol = "TCP"
    THEN LET hs == write_tcp_handshake(w, packet)
         IN  [steps |-> hs.steps,
              final |-> [hs.final EXCEPT !.stream_count = WrappingAdd(@, 1)]]
    ELSE [steps |-> <<>>, final |-> w]

\* PcapWriter::new_connect (capture.rs 92-103)
new_connect(w, packet) ==
    LET hs == IF packet.protocol = "TCP"
              THEN write_tcp_handshake(w, packet)
              ELSE [steps |-> <<>>, final |-> w]
    IN  [steps |-> hs.steps,
         final |-> [hs.final EXCEPT !.stream_count = WrappingAdd(@, 1)]]

\* A NullWriter that forwards write to a capture writer.
NullWriter_writeCaptures(w, info, data) == write_transport_packet(w, info, data)

\* NullWriter::write (capture.rs 59)
NullWriter_write(w, info, data) == [steps |-> <<>>, final |-> w]

\* NullWriter::new_connect (capture.rs 60)
NullWriter_new_connect(w, packet) == [steps |-> <<>>, final |-> w]

\* crate::socket::capture::set_writer: a OnceLock, which holds the first writer
\* it is given and panics when it is given another (capture.rs 403-404, 442-443).
set_writer(reg, writer) ==
    IF reg.kind = "unset"
    THEN [registry |-> writer, panic |-> FALSE]
    ELSE [registry |-> reg, panic |-> TRUE]

\* A setup_capture that replaces the writer installed before.
setup_captureReplaces(reg, writer) == [registry |-> writer, panic |-> FALSE]

\* setup_capture (capture.rs 448-453)
setup_capture(reg, writer) == set_writer(reg, writer)

\* An open that creates the file or truncates the one that is there.
OpenTruncating(file) == [ok |-> TRUE, file |-> [exists |-> TRUE, blocks |-> <<>>]]

\* OpenOptions::new().create_new(true).write(true).open(file_name)
\* (capture.rs 411-415): fails when the file exists.
OpenCreateNew(file) ==
    IF file.exists
    THEN [ok |-> FALSE, file |-> file]
    ELSE [ok |-> TRUE, file |-> [exists |-> TRUE, blocks |-> <<>>]]

-----------------------------------------------------------------------------
(* The state machine *)

Writer ==
    [send_seq |-> send_seq, rec_seq |-> rec_seq,
     has_sent_handshake |-> has_sent_handshake, stream_count |-> stream_count]

NoCall == [op |-> "none"]

NoFile == "none"

Paths == {"a.pcapng", "b.pcapng"}

\* The blocks at the head of a capture file.
SectionHeader == [type |-> "SectionHeader"]

InterfaceDescription ==
    [type |-> "InterfaceDescription", linktype |-> "ETHERNET",
     snaplen |-> 65535, options |-> <<>>]

\* A file that is not there, a file someone else wrote, a file the setup wrote.
AbsentFile == [exists |-> FALSE, blocks |-> <<>>]

ForeignFile == [exists |-> TRUE, blocks |-> <<[type |-> "Foreign"]>>]

CaptureFile == [exists |-> TRUE, blocks |-> <<SectionHeader, InterfaceDescription>>]

Unset == [kind |-> "unset", file |-> NoFile]

NullWriter == [kind |-> "Null", file |-> NoFile]

PcapWriter(path) == [kind |-> "Pcap", file |-> path]

\* The payloads and the number of calls of a run.
Inputs == IF sizes = "boundary" THEN BoundaryPayloads ELSE Payloads

OpsBound == IF sizes = "boundary" THEN MaxBoundaryOps ELSE MaxOps

\* PcapWriter::new (capture.rs 73-82), installed by simple_setup_capture on a
\* new file.
Init ==
    /\ registry = PcapWriter("a.pcapng")
    /\ files = [p \in Paths |-> IF p = "a.pcapng" THEN CaptureFile ELSE AbsentFile]
    /\ sizes = "small"
    /\ send_seq = U32(0)
    /\ rec_seq = U32(0)
    /\ has_sent_handshake = FALSE
    /\ stream_count = U32(0)
    /\ log = <<>>
    /\ status = "running"
    /\ family \in {4, 6}
    /\ ops = 0
    /\ calls = <<>>
    /\ last = NoCall
    /\ sendSum = <<0, 0>>
    /\ recvSum = <<0, 0>>
    /\ connects = <<0, 0>>

\* A writer late in a long session: the counters are about to pass 2^32 - 1.
\* log and calls hold what was appended and called since this moment.
InitLate ==
    /\ registry = PcapWriter("a.pcapng")
    /\ files = [p \in Paths |-> IF p = "a.pcapng" THEN CaptureFile ELSE AbsentFile]
    /\ sizes = "small"
    /\ send_seq = <<Half - 1, Half - 2>>
    /\ rec_seq = <<Half - 1, Half - 1>>
    /\ has_sent_handshake = TRUE
    /\ stream_count = <<Half - 1, Half - 1>>
    /\ log = <<>>
    /\ status = "running"
    /\ family = 4
    /\ ops = 0
    /\ calls = <<>>
    /\ last = NoCall
    /\ sendSum = <<Half - 1, Half - 2 - 501>>
    /\ recvSum = <<Half - 1, Half - 1 - 1001>>
    /\ connects = <<Half - 1, Half - 1>>

Blocks(steps, n) == [i \in 1..n |-> steps[i].block]

\* The transport payload did not fit its buffer (capture.rs 122, 190).
Overflowed(res) == "overflow" \in DOMAIN res /\ res.overflow

\* Encoding the block panics: the segment does not fit the IP buffer behind its
\* header (capture.rs 232, 261, 373), or the IP packet does not fit the
\* Ethernet buffer behind its header (capture.rs 279, 378).
EncodeOverflows(block) ==
    LET ipHeader == IF block.data.ethertype = "Ipv4"
                    THEN block.data.ip.header_length * 4 ELSE HEADER_SIZE_IP6
        network_len == ipHeader + block.data.transport.bytes + block.data.trailer
    IN  \/ ipHeader + block.data.transport.bytes > PACKET_SIZE - HEADER_SIZE_ETHERNET
        \/ HEADER_SIZE_ETHERNET + network_len > PACKET_SIZE

\* The first step whose encoding panics, 0 when there is none.
FirstOverflow(steps) ==
    IF \E i \in 1..Len(steps) : EncodeOverflows(steps[i].block)
    THEN CHOOSE i \in 1..Len(steps) :
            /\ EncodeOverflows(steps[i].block)
            /\ \A j \in 1..(i - 1) : ~EncodeOverflows(steps[j].block)
    ELSE 0

\* The step at which the call panics, 0 when every step succeeds: `fail` = 0
\* when every write_block succeeds, else the index of the write_block whose Err
\* makes unwrap() panic (capture.rs 384-395); a block that does not fit its
\* buffer panics where it is encoded.
Stop(res, fail) ==
    LET encoded == IF fail = 0 THEN Len(res.steps) ELSE fail - 1
        fo == FirstOverflow(SubSeq(res.steps, 1, encoded))
    IN  IF fo # 0 THEN fo ELSE fail

\* The call returns Ok(()).
CallOk(res, fail) == Stop(res, fail) = 0 /\ ~Overflowed(res)

\* The effect of one call on the writer, the log and the history.
Run(call, res, fail) ==
    LET stop == Stop(res, fail)
        ok == stop = 0 /\ ~Overflowed(res)
        done == IF Overflowed(res) THEN 0
                ELSE IF stop = 0 THEN Len(res.steps) ELSE stop - 1
        w == IF Overflowed(res) THEN Writer
             ELSE IF stop = 0 THEN res.final ELSE res.steps[stop].w
    IN  /\ send_seq' = w.send_seq
        /\ rec_seq' = w.rec_seq
        /\ has_sent_handshake' = w.has_sent_handshake
        /\ stream_count' = w.stream_count
        /\ log' = log \o Blocks(res.steps, done)
        /\ status' = IF ok THEN "running" ELSE "panicked"
        /\ ops' = ops + 1
        /\ calls' = IF ok THEN Append(calls, call) ELSE calls
        /\ last' = [op |-> call.op, info |-> call.info, data |-> call.data,
                    result |-> IF ok THEN "Ok" ELSE "panic",
                    pre |-> Writer, logLen |-> Len(log)]
        /\ UNCHANGED <<family, registry, files, sizes>>

Write(info, data, fail) ==
    LET res == write(Writer, info, data)
        tcp == info.protocol = "TCP"
        ok == CallOk(res, fail)
    IN  /\ status = "running"
        /\ registry.kind = "Pcap"
        /\ ops < OpsBound
        /\ fail \in 0..Len(res.steps)
        /\ Run([op |-> "write", info |-> info, data |-> data], res, fail)
        /\ sendSum' = IF tcp /\ info.direction = "Send" /\ ok
                      THEN BigAdd(sendSum, Len(data)) ELSE sendSum
        /\ recvSum' = IF tcp /\ info.direction = "Receive" /\ ok
                      THEN BigAdd(recvSum, Len(data)) ELSE recvSum
        /\ UNCHANGED connects

NewConnect(packet, fail) ==
    LET res == new_connect(Writer, packet)
        tcp == packet.protocol = "TCP"
        ok == CallOk(res, fail)
    IN  /\ status = "running"
        /\ registry.kind = "Pcap"
        /\ ops < OpsBound
        /\ fail \in 0..Len(res.steps)
        /\ Run([op |-> "new_connect", info |-> packet, data |-> <<>>], res, fail)
        /\ sendSum' = IF tcp /\ ok THEN <<0, 0>> ELSE sendSum
        /\ recvSum' = IF tcp /\ ok THEN <<0, 0>> ELSE recvSum
        /\ connects' = IF ok THEN BigAdd(connects, 1) ELSE connects

NoInfo == [direction |-> "none", protocol |-> "none"]

\* simple_setup_capture (capture.rs 409-436).  `fail`: 0 when every I/O step
\* succeeds, 1 when the section header cannot be written (PcapNgWriter::new),
\* 2 when the interface description cannot be written; each unwrap() panics.
SimpleSetupCapture(file_name, fail) ==
    LET opened == OpenCreateNew(files[file_name])
        written == IF ~opened.ok THEN opened.file
                   ELSE IF fail = 1 THEN opened.file
                   ELSE IF fail = 2
                        THEN [opened.file EXCEPT !.blocks = <<SectionHeader>>]
                        ELSE [opened.file EXCEPT
                                !.blocks = <<SectionHeader, InterfaceDescription>>]
        built == IF file_name = NoFile THEN TRUE ELSE opened.ok /\ fail = 0
        writer == IF file_name = NoFile THEN NullWriter ELSE PcapWriter(file_name)
        set == setup_capture(registry, writer)
        ok == built /\ ~set.panic
        fresh == ok /\ file_name # NoFile
    IN  /\ status = "running"
        /\ ops < OpsBound
        /\ file_name = NoFile => fail = 0
        /\ files' = IF file_name = NoFile THEN files
                     ELSE [files EXCEPT ![file_name] = written]
        /\ registry' = IF built THEN set.registry ELSE registry
        /\ status' = IF ok THEN "running" ELSE "panicked"
        \* PcapWriter::new (capture.rs 73-82) for the writer installed
        /\ send_seq' = IF fresh THEN U32(0) ELSE send_seq
        /\ rec_seq' = IF fresh THEN U32(0) ELSE rec_seq
        /\ has_sent_handshake' = IF fresh THEN FALSE ELSE has_sent_handshake
        /\ stream_count' = IF fresh THEN U32(0) ELSE stream_count
        /\ ops' = ops + 1
        /\ calls' = IF ok
                     THEN Append(calls, [op |-> "setup", info |-> NoInfo, data |-> <<>>])
                     ELSE calls
        /\ last' = [op |-> "setup", info |-> NoInfo, data |-> <<>>,
                    result |-> IF ok THEN "Ok" ELSE "panic",
                    pre |-> Writer, logLen |-> Len(log),
                    file_name |-> file_name, registry |-> registry, files |-> files]
        /\ UNCHANGED <<log, family, sizes, sendSum, recvSum, connects>>

\* A write through the registry when the NullWriter is installed.
NullWrite(info, data) ==
    /\ status = "running"
    /\ registry.kind = "Null"
    /\ ops < OpsBound
    /\ Run([op |-> "write", info |-> info, data |-> data],
           NullWriter_write(Writer, info, data), 0)
    /\ UNCHANGED <<sendSum, recvSum, connects>>

\* A new_connect through the registry when the NullWriter is installed.
NullNewConnect(packet) ==
    /\ status = "running"
    /\ registry.kind = "Null"
    /\ ops < OpsBound
    /\ Run([op |-> "new_connect", info |-> packet, data |-> <<>>],
           NullWriter_new_connect(Writer, packet), 0)
    /\ UNCHANGED <<sendSum, recvSum, connects>>

\* The process before any setup call: no writer, each file there or not.
InitSetup ==
    /\ send_seq = U32(0)
    /\ rec_seq = U32(0)
    /\ has_sent_handshake = FALSE
    /\ stream_count = U32(0)
    /\ log = <<>>
    /\ status = "running"
    /\ family \in {4, 6}
    /\ ops = 0
    /\ calls = <<>>
    /\ last = NoCall
    /\ sendSum = <<0, 0>>
    /\ recvSum = <<0, 0>>
    /\ connects = <<0, 0>>
    /\ registry = Unset
    /\ files \in [Paths -> {AbsentFile, ForeignFile}]
    /\ sizes = "small"

\* The installed writer, called with payloads at the buffer boundary.
InitBoundary ==
    /\ send_seq = U32(0)
    /\ rec_seq = U32(0)
    /\ has_sent_handshake = FALSE
    /\ stream_count = U32(0)
    /\ log = <<>>
    /\ status = "running"
    /\ family \in {4, 6}
    /\ ops = 0
    /\ calls = <<>>
    /\ last = NoCall
    /\ sendSum = <<0, 0>>
    /\ recvSum = <<0, 0>>
    /\ connects = <<0, 0>>
    /\ registry = PcapWriter("a.pcapng")
    /\ files = [p \in Paths |-> IF p = "a.pcapng" THEN CaptureFile ELSE AbsentFile]
    /\ sizes = "boundary"

Next ==
    \/ \E d \in Directions, p \in Protocols, data \in Inputs, fail \in 0..3 :
          Write(PacketInfo(d, p, family), data, fail)
    \/ \E d \in Directions, p \in Protocols, fail \in 0..3 :
          NewConnect(PacketInfo(d, p, family), fail)

Spec == Init /\ [][Next]_vars

\* The same writer, started either fresh or late in a long session.
SpecLate == (Init \/ InitLate) /\ [][Next]_vars

\* The same writer, called with payloads at the buffer boundary.
SpecBoundary == InitBoundary /\ [][Next]_vars

NextSetup ==
    \/ \E f \in Paths \cup {NoFile}, fail \in 0..2 : SimpleSetupCapture(f, fail)
    \/ \E d \in Directions, p \in Protocols, data \in Inputs, fail \in 0..3 :
          Write(PacketInfo(d, p, family), data, fail)
    \/ \E d \in Directions, p \in Protocols, fail \in 0..3 :
          NewConnect(PacketInfo(d, p, family), fail)
    \/ \E d \in Directions, p \in Protocols, data \in Inputs :
          NullWrite(PacketInfo(d, p, family), data)
    \/ \E d \in Directions, p \in Protocols :
          NullNewConnect(PacketInfo(d, p, family))

\* The process from its start: the setup call, then the socket events.
SpecSetup == InitSetup /\ [][NextSetup]_vars

-----------------------------------------------------------------------------
(* Vocabulary of the properties *)

Transport(r) == r.data.transport

IsTcp(r) == Transport(r).proto = "TCP"

IsTcpData(r) == IsTcp(r) /\ Transport(r).flags = {"PSH", "ACK"}

IsHandshake(r) == r.options = <<"Generated TCP handshake">>

IsGeneratedAck(r) == r.options = <<"Generated TCP ack">>

\* The blocks the latest call appended.
Appended == SubSeq(log, last.logLen + 1, Len(log))

Returned(op, proto) ==
    /\ last.op = op
    /\ last.info.protocol = proto
    /\ last.result = "Ok"

Local == LocalAddress(family)

Remote == RemoteAddress(family)

\* r is a TCP segment from endpoint `from` to endpoint `to` with these numbers.
TcpRecord(r, from, to, flags, seq, ack) ==
    /\ IsTcp(r)
    /\ r.data.ip.source = from.ip
    /\ r.data.ip.destination = to.ip
    /\ Transport(r).source = from.port
    /\ Transport(r).destination = to.port
    /\ Transport(r).flags = flags
    /\ Transport(r).sequence = seq
    /\ Transport(r).acknowledgement = ack

\* a is the acknowledgement that matches the TCP data record d.
AckMatches(d, a) ==
    /\ IsTcp(a)
    /\ IsGeneratedAck(a)
    /\ Transport(a).flags = {"ACK"}
    /\ Transport(a).payload = <<>>
    /\ a.data.ip.source = d.data.ip.destination
    /\ a.data.ip.destination = d.data.ip.source
    /\ Transport(a).source = Transport(d).destination
    /\ Transport(a).destination = Transport(d).source
    /\ Transport(a).acknowledgement =
          Mod32(BigAdd(Transport(d).sequence, Len(Transport(d).payload)))
    /\ Transport(a).sequence = Transport(d).acknowledgement

EveryDataIsAcked ==
    \A i \in 1..Len(log) :
        IsTcpData(log[i]) =>
            /\ i < Len(log)
            /\ AckMatches(log[i], log[i + 1])
            /\ (i + 2 <= Len(log) => ~IsGeneratedAck(log[i + 2]))

IsHandshakeTriple(recs) ==
    /\ Len(recs) = 3
    /\ \A i \in 1..3 : IsHandshake(recs[i]) /\ Transport(recs[i]).payload = <<>>
    /\ TcpRecord(recs[1], Local, Remote, {"SYN"}, U32(500), U32(0))
    /\ TcpRecord(recs[2], Remote, Local, {"SYN", "ACK"}, U32(1000), U32(501))
    /\ TcpRecord(recs[3], Local, Remote, {"ACK"}, U32(501), U32(1001))

-----------------------------------------------------------------------------
(* C1: on a freshly created writer, the first write call of a TCP session  *)
(* emits the three handshake records, then the data record, then its ack,  *)
(* so the log holds exactly 5 records, and the handshake flag is set; this *)
(* also when no new_connect came before the write.                         *)
C1_FirstWriteEmitsHandshake ==
    (/\ Returned("write", "TCP")
     /\ Len(calls) = 1
     /\ ~last.pre.has_sent_handshake)
    => /\ Len(log) = 5
       /\ IsHandshakeTriple(SubSeq(log, 1, 3))
       /\ IsTcpData(log[4])
       /\ AckMatches(log[4], log[5])
       /\ has_sent_handshake

(* C2: only the first new_connect(TCP) of a writer emits handshake records *)
(* and sets the counters; a later new_connect(TCP) appends nothing and     *)
(* leaves send_seq and rec_seq as they were.                               *)
C2_NewConnectIdempotent ==
    (/\ Returned("new_connect", "TCP")
     /\ \E i \in 1..(Len(calls) - 1) :
           calls[i].op = "new_connect" /\ calls[i].info.protocol = "TCP")
    => /\ Len(log) = last.logLen
       /\ send_seq = last.pre.send_seq
       /\ rec_seq = last.pre.rec_seq

C4_SequenceCounters ==
    (status = "running" /\ has_sent_handshake)
    => /\ send_seq = Mod32(BigAdd(sendSum, 501))
       /\ rec_seq = Mod32(BigAdd(recvSum, 1001))

C4_Witness ==
    /\ Returned("write", "TCP")
    /\ last.info.direction = "Send"
    /\ last.pre.send_seq = <<Half - 1, Half - 2>>
    /\ send_seq = <<0, 0>>
    /\ rec_seq = last.pre.rec_seq

(* C5: a handshake is exactly SYN (local to remote, seq 500), SYN+ACK      *)
(* (remote to local, seq 1000, ack 501), ACK (local to remote, seq 501,    *)
(* ack 1001), each commented "Generated TCP handshake", whatever the       *)
(* direction of the event; afterwards send_seq = 501, rec_seq = 1001 and   *)
(* the handshake flag is set.                                              *)
C5_Handshake ==
    Returned("new_connect", "TCP")
    => /\ IsHandshakeTriple(Appended)
       /\ send_seq = U32(501)
       /\ rec_seq = U32(1001)
       /\ has_sent_handshake

C5_Witness ==
    /\ Returned("new_connect", "TCP")
    /\ last.info.direction = "Receive"
    /\ Len(log) = 3

Writes == SelectSeq(calls, LAMBDA c : c.op = "write")

OnlyUdp ==
    /\ \A i \in 1..Len(calls) : calls[i].info.protocol = "UDP"
    /\ last.op # "none" => last.info.protocol = "UDP"

(* C6: when every call so far was a UDP call, the log holds one record per *)
(* write call, in order, each an uncommented UDP datagram carrying exactly *)
(* the payload of its call; new_connect(UDP) appended nothing.             *)
C6_UdpOneRecordPerWrite ==
    OnlyUdp
    => /\ Len(log) = Len(Writes)
       /\ \A i \in 1..Len(log) :
             /\ Transport(log[i]).proto = "UDP"
             /\ log[i].options = <<>>
             /\ Transport(log[i]).payload = Writes[i].data
             /\ Transport(log[i]).bytes = UdpPacketSize + Len(Writes[i].data)

C6_Witness ==
    /\ OnlyUdp
    /\ Len(calls) = 3
    /\ Len(Writes) = 2
    /\ Len(Writes[2].data) = MaxPayloadLen
    /\ calls[2].op = "new_connect"

(* C7: a UDP write leaves send_seq, rec_seq, the handshake flag and        *)
(* stream_count as they were, and a UDP new_connect leaves send_seq,       *)
(* rec_seq and the handshake flag as they were; so the numbers of a later  *)
(* TCP data record depend on the TCP payloads alone.                       *)
C7_UdpTouchesNoSequenceState ==
    /\ (last.op # "none" /\ last.info.protocol = "UDP")
       => /\ send_seq = last.pre.send_seq
          /\ rec_seq = last.pre.rec_seq
          /\ has_sent_handshake = last.pre.has_sent_handshake
          /\ (last.op = "write" => stream_count = last.pre.stream_count)
    /\ (Returned("write", "TCP") /\ last.pre.has_sent_handshake)
       => LET d == Transport(log[last.logLen + 1])
          IN  IF last.info.direction = "Send"
              THEN /\ Mod32(BigAdd(d.sequence, Len(d.payload)))
                        = Mod32(BigAdd(sendSum, 501))
                   /\ d.acknowledgement = Mod32(BigAdd(recvSum, 1001))
              ELSE /\ Mod32(BigAdd(d.sequence, Len(d.payload)))
                        = Mod32(BigAdd(recvSum, 1001))
                   /\ d.acknowledgement = Mod32(BigAdd(sendSum, 501))

C7_Witness ==
    /\ Returned("write", "TCP")
    /\ last.pre.has_sent_handshake
    /\ Len(calls) = 3
    /\ calls[1].op = "new_connect" /\ calls[1].info.protocol = "TCP"
    /\ calls[2].op = "write" /\ calls[2].info.protocol = "UDP"
    /\ Len(calls[2].data) > 0

(* C8: stream_count is the number of new_connect calls made so far,        *)
(* modulo 2^32: 0 on a new writer, one more after each new_connect of      *)
(* either protocol, unchanged by write.                                    *)
C8_StreamCountCountsConnects == stream_count = Mod32(connects)

C8_Witness ==
    /\ Returned("new_connect", "UDP")
    /\ last.pre.stream_count = <<Half - 1, Half - 1>>
    /\ stream_count = <<0, 0>>
    /\ Len(calls) = 2
    /\ calls[1].op = "write"

(* C9: a failure to append a record during write or new_connect comes back *)
(* to the caller as an error value: the process keeps running, and the     *)
(* call does not return Ok when a record was not appended.                 *)
C9_FailureIsReturned ==
    last.op # "none"
    => /\ status = "running"
       /\ last.result \in {"Ok", "Err"}

(* C10: every record in the log has original_len equal to the number of    *)
(* bytes of its data and interface_id 0, and that number is 14 (Ethernet)  *)
(* + the IP header (24 for IPv4 with its option, 40 for IPv6) + the        *)
(* transport header + the transport payload length.                        *)
C10_RecordLength ==
    \A i \in 1..Len(log) :
        LET r == log[i]
            ipHeader == IF r.data.ethertype = "Ipv4" THEN 24 ELSE 40
            transportHeader == IF IsTcp(r) THEN 20 ELSE 8
        IN  /\ r.original_len = r.data.bytes
            /\ r.interface_id = 0
            /\ r.data.bytes = 14 + ipHeader + transportHeader
                                 + Len(Transport(r).payload)

-----------------------------------------------------------------------------
(* A standard decoder: it takes the lengths from the fields the protocols   *)
(* define (IPv4 total length and header length, IPv6 payload length, TCP    *)
(* data offset, UDP length = 8-byte header + payload) and the content from  *)
(* the bytes of the record.                                                 *)

Zeros(n) == [i \in 1..n |-> 0]

\* The bytes of the record behind its transport header.
BytesAfterTransportHeader(r) == Transport(r).payload \o Zeros(r.data.trailer)

IpPayloadLength(r) ==
    IF r.data.ethertype = "Ipv4"
    THEN r.data.ip.total_length - r.data.ip.header_length * 4
    ELSE r.data.ip.payload_length

DecodedPayloadLength(r) ==
    IF IsTcp(r)
    THEN IpPayloadLength(r) - Transport(r).data_offset * 4
    ELSE Transport(r).length - 8

Malformed == [malformed |-> TRUE]

Decode(r) ==
    LET n == DecodedPayloadLength(r)
    IN  IF n < 0 \/ n > Len(BytesAfterTransportHeader(r))
        THEN Malformed
        ELSE [source |-> [ip |-> r.data.ip.source, port |-> Transport(r).source],
              destination |-> [ip |-> r.data.ip.destination,
                               port |-> Transport(r).destination],
              payload |-> SubSeq(BytesAfterTransportHeader(r), 1, n)]

\* What a write call put in: the endpoints in the order of its direction.
Encoded(info, data) ==
    [source |-> IF info.direction = "Send"
                THEN info.local_address ELSE info.remote_address,
     destination |-> IF info.direction = "Send"
                     THEN info.remote_address ELSE info.local_address,
     payload |-> data]

(* C11: round trip.  The data record of every write call, over IPv4 or     *)
(* IPv6 and TCP or UDP, decodes with a standard decoder to exactly the     *)
(* source and destination address and port of the event and to the full    *)
(* payload of the call.                                                    *)
C11_RoundTrip ==
    (last.op = "write" /\ Len(log) > last.logLen)
    => Decode(log[last.logLen + 1]) = Encoded(last.info, last.data)

(* C12: in every IPv4 record the total length field is 20 + 4 + the length *)
(* of the transport segment, the header length field is 6, and the total   *)
(* length field is the number of bytes emitted after the Ethernet header.  *)
C12_Ipv4TotalLength ==
    \A i \in 1..Len(log) :
        log[i].data.ethertype = "Ipv4"
        => /\ log[i].data.ip.total_length = 20 + 4 + Transport(log[i]).bytes
           /\ log[i].data.ip.header_length = 6
           /\ log[i].data.ip.total_length = log[i].data.bytes - HEADER_SIZE_ETHERNET

-----------------------------------------------------------------------------
\* The latest call was simple_setup_capture(Some(path)).
SetupWithPath == last.op = "setup" /\ last.file_name # NoFile

(* C13: simple_setup_capture(Some(path)) requires that the file does not   *)
(* exist yet.  When the path exists the call panics, the file is left as   *)
(* it was and the registry is left as it was; when the path does not exist *)
(* the file is created, and when the call returns the file holds the       *)
(* section header and exactly one interface description, no capture record *)
(* was written yet, and the PcapWriter on that file is the installed       *)
(* writer.                                                                 *)
C13_SetupWithPath ==
    SetupWithPath
    => IF last.files[last.file_name].exists
       THEN /\ status = "panicked"
            /\ files = last.files
            /\ registry = last.registry
       ELSE /\ files[last.file_name].exists
            /\ last.result = "Ok"
               => /\ files[last.file_name].blocks
                       = <<SectionHeader, InterfaceDescription>>
                  /\ log = <<>>
                  /\ registry = PcapWriter(last.file_name)
                  /\ \A q \in Paths \ {last.file_name} : files[q] = last.files[q]

C13_Witness ==
    /\ SetupWithPath
    /\ last.files[last.file_name].exists
    /\ last.files[last.file_name].blocks # <<>>
    /\ last.registry = Unset
    /\ status = "panicked"

\* A setup call made when a writer was installed panicked and replaced nothing.
LaterSetupPanics ==
    (last.op = "setup" /\ last.registry # Unset)
    => /\ status = "panicked"
       /\ registry = last.registry

\* The first setup call that gets as far as setup_capture installs its writer.
FirstSetupInstalls ==
    (last.op = "setup" /\ last.registry = Unset /\ last.result = "Ok")
    => registry = IF last.file_name = NoFile
                  THEN NullWriter ELSE PcapWriter(last.file_name)

(* C14: the registry is installed at most once: the first setup call       *)
(* installs its writer, a later setup call panics and replaces nothing,    *)
(* and no step changes the installed writer once there is one.             *)
C14_InstalledOnce ==
    /\ [](LaterSetupPanics /\ FirstSetupInstalls)
    /\ [][registry # Unset => registry' = registry]_vars

C14_Witness ==
    /\ last.op = "setup"
    /\ last.registry = PcapWriter("a.pcapng")
    /\ last.file_name = "b.pcapng"
    /\ ~last.files["b.pcapng"].exists
    /\ Len(log) > 0
    /\ status = "panicked"

(* C15: when the NullWriter is installed, every write and new_connect call *)
(* returns Ok(()), the log stays empty and the writer state stays as it    *)
(* was, whatever the calls.                                                *)
C15_NullWriterDoesNothing ==
    registry = NullWriter
    => /\ log = <<>>
       /\ Writer = [send_seq |-> U32(0), rec_seq |-> U32(0),
                    has_sent_handshake |-> FALSE, stream_count |-> U32(0)]
       /\ last.op \in {"write", "new_connect"}
          => /\ last.result = "Ok"
             /\ status = "running"
             /\ Len(log) = last.logLen
             /\ Writer = last.pre

C15_Witness ==
    /\ registry = NullWriter
    /\ Returned("write", "TCP")
    /\ Len(last.data) = MaxPayloadLen
    /\ \E i \in 1..Len(calls) :
          calls[i].op = "new_connect" /\ calls[i].info.protocol = "TCP"

-----------------------------------------------------------------------------
\* The stream id a record carries: the IPv4 option data or the IPv6 flow label.
StreamId(r) ==
    IF r.data.ethertype = "Ipv4" THEN r.data.ip.option.data ELSE r.data.ip.flow_label

\* r opens a connection in the log: the SYN of a handshake.
IsSyn(r) == IsHandshake(r) /\ Transport(r).flags = {"SYN"}

\* Every new_connect so far was a TCP one, so each shows in the log as a handshake.
OnlyTcpConnects ==
    /\ \A i \in 1..Len(calls) :
          calls[i].op = "new_connect" => calls[i].info.protocol = "TCP"
    /\ last.op = "new_connect" => last.info.protocol = "TCP"

(* C16: when every new_connect so far was a TCP one, a record that opens a *)
(* connection (the SYN of a handshake) carries a stream id that differs    *)
(* from the one of the record before it, and every other record carries    *)
(* the stream id of the record before it: the records of one connection,   *)
(* handshake, data and acks, share one stream id, and the next connection  *)
(* has another.                                                            *)
C16_StreamIdPerConnection ==
    OnlyTcpConnects
    => \A i \in 1..(Len(log) - 1) :
          IF IsSyn(log[i + 1])
          THEN StreamId(log[i + 1]) # StreamId(log[i])
          ELSE StreamId(log[i + 1]) = StreamId(log[i])

-----------------------------------------------------------------------------
\* The endpoints a record names: IP address and transport port.
SourceOf(r) == [ip |-> r.data.ip.source, port |-> Transport(r).source]

DestinationOf(r) == [ip |-> r.data.ip.destination, port |-> Transport(r).destination]

(* C17: endpoints are never mixed inside one record.  In every record of   *)
(* the log (data, synthesized ack, handshake) the source pair (IP address, *)
(* port) is the local or the remote endpoint and the destination pair is   *)
(* the other one; the data record of a write has the local endpoint as     *)
(* source exactly when the direction of the event is Send.                 *)
C17_EndpointsNeverMixed ==
    /\ \A i \in 1..Len(log) :
          \/ SourceOf(log[i]) = Local /\ DestinationOf(log[i]) = Remote
          \/ SourceOf(log[i]) = Remote /\ DestinationOf(log[i]) = Local
    /\ (last.op = "write" /\ Len(log) > last.logLen)
       => /\ SourceOf(log[last.logLen + 1]) = Local <=> last.info.direction = "Send"
          /\ SourceOf(log[last.logLen + 1]) = Remote <=> last.info.direction = "Receive"

C17_Witness ==
    /\ Returned("write", "TCP")
    /\ last.info.direction = "Receive"
    /\ Len(log) = 5
    /\ IsHandshake(log[3])
    /\ SourceOf(log[4]) = Remote
    /\ SourceOf(log[5]) = Local

-----------------------------------------------------------------------------
\* r is shaped as the data record of a write: a UDP datagram or a PSH+ACK segment.
IsDataRecord(r) == ~IsTcp(r) \/ IsTcpData(r)

Uncommented == {i \in 1..Len(log) : log[i].options = <<>>}

\* The comments of the records the latest call appended.
LastCallComments ==
    /\ last.op = "new_connect" => \A i \in 1..Len(Appended) : IsHandshake(Appended[i])
    /\ last.op = "write"
       => /\ Len(Appended) <= 2
          /\ Len(Appended) >= 1 => Appended[1].options = <<>>
          /\ Len(Appended) = 2 => IsGeneratedAck(Appended[2])

\* A record has no comment exactly when it is a data record; the others are
\* handshake records and acks, commented as such.
CommentsTellData ==
    /\ \A i \in 1..Len(log) :
          /\ log[i].options = <<>> <=> IsDataRecord(log[i])
          /\ log[i].options \in {<<>>, <<"Generated TCP ack">>,
                                  <<"Generated TCP handshake">>}
          /\ IsGeneratedAck(log[i]) => Transport(log[i]).flags = {"ACK"}
    /\ LastCallComments

\* The latest call is a write that panicked after its data record was appended.
DataOfUnfinishedWrite ==
    status = "panicked" /\ last.op = "write" /\ Len(log) > last.logLen

-----------------------------------------------------------------------------
\* The largest payload the transport buffer takes behind the transport header.
LargestPayload(protocol) == IF protocol = "TCP" THEN 4938 ELSE 4950

\* The bytes of a record up to the end of the payload.
BytesUpToPayloadEnd(r) ==
    HEADER_SIZE_ETHERNET
    + (IF r.data.ethertype = "Ipv4" THEN 24 ELSE 40)
    + (IF IsTcp(r) THEN 20 ELSE 8)
    + Len(Transport(r).payload)

(* C19: buffer sizing is consistent across layers.  A payload that fits    *)
(* the transport buffer (TCP at most 4938 bytes, UDP at most 4950) fits    *)
(* the IP buffer and the Ethernet buffer over IPv4 and over IPv6: no layer *)
(* panics on it, and the record written holds the whole payload within at  *)
(* most 5012 bytes.  A larger payload makes write panic before any record  *)
(* is appended and before any sequence counter is changed.                 *)
C19_BufferSizing ==
    last.op = "write"
    => LET res == write(last.pre, last.info, last.data)
       IN  IF Len(last.data) <= LargestPayload(last.info.protocol)
           THEN /\ ~Overflowed(res)
                /\ FirstOverflow(res.steps) = 0
                /\ \A i \in 1..Len(Appended) :
                      /\ Appended[i].data.bytes <= PACKET_SIZE
                      /\ BytesUpToPayloadEnd(Appended[i]) <= Appended[i].data.bytes
                /\ Len(Appended) >= 1 => Transport(Appended[1]).payload = last.data
                /\ last.result = "Ok" => Len(Appended) >= 1
           ELSE /\ status = "panicked"
                /\ Len(log) = last.logLen
                /\ Writer = last.pre

C19_Witness ==
    /\ Returned("write", "TCP")
    /\ family = 6
    /\ Len(last.data) = 4938
    /\ Len(Appended) = 2
    /\ Appended[1].data.bytes = PACKET_SIZE
    /\ BytesUpToPayloadEnd(Appended[1]) = PACKET_SIZE

====
